---- MODULE Spec2Model ----
(***************************************************************************)
(* Model of mecha/contrib/scripting/codegen.py: the Accumulator, the       *)
(* children collectors, the generic rewrite algorithms and the Codegen     *)
(* rule set.                                                               *)
(*                                                                         *)
(* Text is a sequence of tokens.  A token is a piece of text that holds    *)
(* no line break and no "#"; the line break "\n", the marker sign "#" and  *)
(* every decimal digit are tokens of their own, so that splitlines(),      *)
(* startswith("#") and int() are computed and not assumed.                 *)
(* Optional values: None is <<>>, a present value v is <<v>>.              *)
(***************************************************************************)
EXTENDS Integers, Sequences, FiniteSets, TLC

VARIABLES acc, op, issued, calls, blocks, nops,
          rules, tree, stack, handled

(* The state of a visitor: its rules in registration order, the tree it    *)
(* was invoked on, the suspended handlers and the handlers called so far.  *)
dispatchVars == <<rules, tree, stack, handled>>

vars == <<acc, op, issued, calls, blocks, nops, rules, tree, stack, handled>>

-----------------------------------------------------------------------------
(* Bounds of the model.                                                    *)

MaxOps == 3
MaxSlice == 2
MaxDepth == 2
MaxPrelude == 1
MaxChildren == 4
MaxCommands == 3

-----------------------------------------------------------------------------
(* Text helpers: Python's str, int, str.join, str.splitlines.              *)

None == <<>>
Some(v) == <<v>>

NL == "\n"
HASH == "#"
INDENT == "    "

Digits == <<"0", "1", "2", "3", "4", "5", "6", "7", "8", "9">>

RECURSIVE str(_)
str(n) == IF n < 10 THEN <<Digits[n + 1]>>
          ELSE str(n \div 10) \o <<Digits[(n % 10) + 1]>>

DigitValue(c) == CHOOSE d \in 0..9 : Digits[d + 1] = c

RECURSIVE int(_)
int(s) == IF Len(s) = 1 THEN DigitValue(s[1])
          ELSE 10 * int(SubSeq(s, 1, Len(s) - 1)) + DigitValue(s[Len(s)])

RECURSIVE Concat(_)
Concat(ss) == IF ss = <<>> THEN <<>> ELSE Head(ss) \o Concat(Tail(ss))

RECURSIVE Join(_, _)
Join(sep, ss) == IF ss = <<>> THEN <<>>
                 ELSE IF Len(ss) = 1 THEN ss[1]
                 ELSE ss[1] \o sep \o Join(sep, Tail(ss))

COMMA == <<", ">>

(* The j-th smallest element of a set of integers.                         *)
Nth(S, j) == CHOOSE x \in S : Cardinality({y \in S : y < x}) = j - 1

(* s.split(sep) for a one-token separator: the inverse of sep.join.        *)
SplitOn(s, sep) ==
    LET at == {i \in 1..Len(s) : s[i] = sep}
        n == Cardinality(at)
        cut == [k \in 0..(n + 1) |->
                  IF k = 0 THEN 0 ELSE IF k = n + 1 THEN Len(s) + 1 ELSE Nth(at, k)]
    IN [k \in 1..(n + 1) |-> SubSeq(s, cut[k - 1] + 1, cut[k] - 1)]

(* text.splitlines(): a line ends at each "\n"; no empty last line.        *)
splitlines(s) ==
    LET parts == SplitOn(s, NL)
    IN IF parts[Len(parts)] = <<>> THEN SubSeq(parts, 1, Len(parts) - 1) ELSE parts

(* repr of a list of integers: "[1, 5]".                                   *)
ReprList(ns) == <<"[">> \o Join(COMMA, [i \in 1..Len(ns) |-> str(ns[i])]) \o <<"]">>

(* The characters of a token, one token each.                              *)
Chars(t) == [j \in 1..Len(t) |-> SubSeq(t, j, j)]

HasChar(s, c) == \E i \in 1..Len(s) : \E j \in 1..Len(s[i]) : SubSeq(s[i], j, j) = c

(* repr of a str encloses it in single quotes, unless it holds a single    *)
(* quote and no double quote.                                              *)
ReprQuote(s) == IF HasChar(s, "'") /\ ~HasChar(s, "\"") THEN "\"" ELSE "'"

(* What repr writes for one character: the backslash, the enclosing quote  *)
(* and the line break, tab and carriage return are escaped.                *)
ReprChar(c, quote) ==
    CASE c = "\\" -> <<"\\", "\\">>
      [] c = "\n" -> <<"\\", "n">>
      [] c = "\t" -> <<"\\", "t">>
      [] c = "\r" -> <<"\\", "r">>
      [] c = quote -> <<"\\", quote>>
      [] OTHER -> <<c>>

(* A token without such a character is kept whole.                         *)
ReprToken(t, quote) ==
    IF \A j \in 1..Len(t) : ReprChar(SubSeq(t, j, j), quote) = <<SubSeq(t, j, j)>>
    THEN <<t>>
    ELSE Concat([j \in 1..Len(t) |-> ReprChar(Chars(t)[j], quote)])

(* repr of a str of printable characters, line breaks, tabs and carriage   *)
(* returns.                                                                *)
repr(s) ==
    <<ReprQuote(s)>> \o Concat([i \in 1..Len(s) |-> ReprToken(s[i], ReprQuote(s))])
      \o <<ReprQuote(s)>>

-----------------------------------------------------------------------------
(* Accumulator                                                             *)

Accumulator == [indentation |-> <<>>, refs |-> <<>>, lines |-> <<>>,
                counter |-> 0, header |-> <<>>]

(* The header dict, in insertion order: expression -> variable.            *)
HeaderHas(header, key) == \E i \in 1..Len(header) : header[i].expression = key

HeaderGet(header, key) ==
    header[CHOOSE i \in 1..Len(header) : header[i].expression = key].variable

HeaderSet(header, key, variable) ==
    IF HeaderHas(header, key)
    THEN [i \in 1..Len(header) |->
            IF header[i].expression = key
            THEN [expression |-> key, variable |-> variable] ELSE header[i]]
    ELSE Append(header, [expression |-> key, variable |-> variable])

(* beet.core.utils.normalize_string on the helper names of the rule set,   *)
(* which are lower-case identifiers already.  A name is text: a sequence   *)
(* of tokens.                                                              *)
normalize_string(name) == name

HelperKey(name) == <<"_mecha_runtime.helpers[">> \o repr(name) \o <<"]">>

HelperVariable(name) == <<"_mecha_helper_">> \o normalize_string(name)

helper_always_binds(a, name, args) ==
    LET key == HelperKey(name) \o <<"(">> \o Join(COMMA, args) \o <<")">>
        hdr == Append(a.header, [expression |-> key, variable |-> HelperVariable(name)])
    IN [acc |-> [a EXCEPT !.header = hdr],
        result |-> HelperVariable(name) \o <<"(">> \o Join(COMMA, args) \o <<")">>]

helper(a, name, args) ==
    LET key == HelperKey(name)
        hdr == IF ~HeaderHas(a.header, key)
               THEN HeaderSet(a.header, key, HelperVariable(name))
               ELSE a.header
    IN [acc |-> [a EXCEPT !.header = hdr],
        result |-> HeaderGet(hdr, key) \o <<"(">> \o Join(COMMA, args) \o <<")">>]

(* kwargs is a sequence of [k, v] in keyword order.                        *)
replace(a, node, kwargs) ==
    helper(a, <<"replace">>,
           <<node>> \o [i \in 1..Len(kwargs) |-> <<kwargs[i].k, "=">> \o kwargs[i].v])

missing(a) ==
    [acc |-> [a EXCEPT !.header =
                HeaderSet(a.header, <<"_mecha_runtime.helpers[", "'", "missing", "'", "]">>,
                          <<"_mecha_helper_", "missing">>)],
     result |-> <<"_mecha_helper_", "missing">>]

children(a, nodes) ==
    helper(a, <<"children">>, << <<"[">> \o Join(COMMA, nodes) \o <<"]">> >>)

make_ref_at_front(a, obj) ==
    [acc |-> [a EXCEPT !.refs = <<obj>> \o a.refs],
     result |-> <<"_mecha_refs[">> \o str(0) \o <<"]">>]

make_ref(a, obj) ==
    LET index == Len(a.refs)
    IN [acc |-> [a EXCEPT !.refs = Append(a.refs, obj)],
        result |-> <<"_mecha_refs[">> \o str(index) \o <<"]">>]

make_ref_slice(a, objs) ==
    LET start == Len(a.refs)
        stop == Len(a.refs) + Len(objs)
    IN [acc |-> [a EXCEPT !.refs = a.refs \o objs],
        result |-> <<"_mecha_refs[">> \o str(start) \o <<":">> \o str(stop) \o <<"]">>]

(* make_variable handing out a name without counting it.                   *)
make_variable_reused(a) ==
    [acc |-> a, result |-> <<"_mecha_var">> \o str(a.counter)]

make_variable(a) ==
    [acc |-> [a EXCEPT !.counter = a.counter + 1],
     result |-> <<"_mecha_var">> \o str(a.counter)]

statement(a, code) ==
    [a EXCEPT !.lines = Append(a.lines, a.indentation \o code \o <<NL>>)]

(* lineno(node): the marker "\n#<lineno>\n", or "" for an unknown location *)
(* (lineno 0 stands for location.unknown) or no node.                      *)
lineno(node) ==
    IF node.lineno # 0 THEN <<NL, HASH>> \o str(node.lineno) \o <<NL>> ELSE <<>>

(* block(): entering saves the indentation and adds one level; leaving,    *)
(* on any exit path, restores the saved value.                             *)
block_enter(a) == [a EXCEPT !.indentation = a.indentation \o <<INDENT>>]

(* Leaving a block by dropping all indentation.                            *)
block_exit_to_margin(a, previous_indentation) == [a EXCEPT !.indentation = <<>>]

block_exit(a, previous_indentation) == [a EXCEPT !.indentation = previous_indentation]

-----------------------------------------------------------------------------
(* get_source                                                              *)

HeaderText(header) ==
    Concat([i \in 1..Len(header) |->
              header[i].variable \o <<" = ">> \o header[i].expression \o <<NL>>])

IsMarker(line) == line # <<>> /\ line[1] = HASH

(* get_source's loop recording every marker, also one that repeats the     *)
(* current line number.                                                    *)
RECURSIVE SourceLoopEveryMarker(_, _, _)
SourceLoopEveryMarker(ls, i, st) ==
    IF i > Len(ls) THEN st
    ELSE IF IsMarker(ls[i])
    THEN SourceLoopEveryMarker(ls, i + 1,
            [st EXCEPT !.numbers1 = Append(@, Len(st.lines)),
                       !.numbers2 = Append(@, int(Tail(ls[i])))])
    ELSE SourceLoopEveryMarker(ls, i + 1, [st EXCEPT !.lines = Append(@, ls[i])])

(* The loop of get_source over the physical lines, from line i on.         *)
RECURSIVE SourceLoop(_, _, _)
SourceLoop(ls, i, st) ==
    IF i > Len(ls) THEN st
    ELSE IF IsMarker(ls[i])
    THEN LET current_line == int(Tail(ls[i]))
         IN IF st.numbers2[Len(st.numbers2)] # current_line
            THEN SourceLoop(ls, i + 1,
                    [st EXCEPT !.numbers1 = Append(@, Len(st.lines)),
                               !.numbers2 = Append(@, current_line)])
            ELSE SourceLoop(ls, i + 1, st)
    ELSE SourceLoop(ls, i + 1, [st EXCEPT !.lines = Append(@, ls[i])])

PhysicalLines(a) == splitlines(HeaderText(a.header) \o Concat(a.lines))

get_source(a) ==
    LET st == SourceLoop(PhysicalLines(a), 1,
                  [lines |-> << <<"_mecha_lineno = ">> >>,
                   numbers1 |-> <<1>>, numbers2 |-> <<1>>])
        first == st.lines[1] \o ReprList(st.numbers1) \o COMMA \o ReprList(st.numbers2)
    IN Join(<<NL>>, <<first>> \o Tail(st.lines))

-----------------------------------------------------------------------------
(* Syntax tree nodes.  Every node is a record of one shape: its kind, the  *)
(* leaf attributes the rules read, its location (lineno 0: unknown) and    *)
(* its dataclass fields in declaration order.  A field is a leaf, one      *)
(* optional child node or an AstChildren sequence.  A node of kind         *)
(* "Custom" is handled by a rule of an extending rule set that emits the   *)
(* statements `emits` and returns `result`.                                *)

LeafField(name) == [name |-> name, type |-> "leaf", nodes |-> <<>>]
NodeField(name, node) == [name |-> name, type |-> "node", nodes |-> <<node>>]
ChildrenField(name, nodes) == [name |-> name, type |-> "children", nodes |-> nodes]

Node(kind) == [kind |-> kind, identifier |-> "", value |-> <<>>, converter |-> "",
               namespace |-> <<>>, path |-> <<>>, lineno |-> 0, fields |-> <<>>,
               emits |-> <<>>, result |-> None,
               operator |-> <<>>, name |-> <<>>, fmt |-> <<>>]

AstMessage(text) ==
    [Node("AstMessage") EXCEPT !.value = <<text>>, !.fields = <<LeafField("value")>>]

AstValue(v) ==
    [Node("AstValue") EXCEPT !.value = <<v>>, !.fields = <<LeafField("value")>>]

AstIdentifier(v, line) ==
    [Node("AstIdentifier") EXCEPT !.value = <<v>>, !.lineno = line,
                                  !.fields = <<LeafField("value")>>]

AstImportedIdentifier(v) ==
    [Node("AstImportedIdentifier") EXCEPT !.value = <<v>>,
                                          !.fields = <<LeafField("value")>>]

AstResourceLocation(namespace, path) ==
    [Node("AstResourceLocation") EXCEPT !.namespace = namespace, !.path = path,
         !.fields = <<LeafField("is_tag"), LeafField("namespace"), LeafField("path")>>]

AstInterpolation(converter, value, line) ==
    [Node("AstInterpolation") EXCEPT !.converter = converter, !.lineno = line,
         !.fields = <<LeafField("converter"), NodeField("value", value)>>]

(* A node with a child node, a children sequence and an absent optional    *)
(* child node among its fields.                                            *)
AstBlock(identifier, block_states) ==
    [Node("AstBlock") EXCEPT
         !.fields = <<NodeField("identifier", identifier),
                      ChildrenField("block_states", block_states),
                      LeafField("data_tags")>>]

AstCommand(identifier, arguments, line) ==
    [Node("AstCommand") EXCEPT !.identifier = identifier, !.lineno = line,
         !.fields = <<LeafField("identifier"), ChildrenField("arguments", arguments)>>]

AstRoot(commands) ==
    [Node("AstRoot") EXCEPT !.fields = <<ChildrenField("commands", commands)>>]

Custom(emits, result) ==
    [Node("Custom") EXCEPT !.emits = emits, !.result = result]

(* The expression nodes of the scripting syntax.                           *)
AstExpressionBinary(operator, left, right, line) ==
    [Node("AstExpressionBinary") EXCEPT !.operator = <<operator>>, !.lineno = line,
         !.fields = <<LeafField("operator"), NodeField("left", left),
                      NodeField("right", right)>>]

AstExpressionUnary(operator, value, line) ==
    [Node("AstExpressionUnary") EXCEPT !.operator = <<operator>>, !.lineno = line,
         !.fields = <<LeafField("operator"), NodeField("value", value)>>]

AstFormatString(fmt, values, line) ==
    [Node("AstFormatString") EXCEPT !.fmt = <<fmt>>, !.lineno = line,
         !.fields = <<LeafField("fmt"), ChildrenField("values", values)>>]

AstTuple(items, line) ==
    [Node("AstTuple") EXCEPT !.lineno = line, !.fields = <<ChildrenField("items", items)>>]

AstList(items, line) ==
    [Node("AstList") EXCEPT !.lineno = line, !.fields = <<ChildrenField("items", items)>>]

AstDictItem(key, value) ==
    [Node("AstDictItem") EXCEPT
         !.fields = <<NodeField("key", key), NodeField("value", value)>>]

AstDict(items, line) ==
    [Node("AstDict") EXCEPT !.lineno = line, !.fields = <<ChildrenField("items", items)>>]

AstAttribute(name, value, line) ==
    [Node("AstAttribute") EXCEPT !.name = <<name>>, !.lineno = line,
         !.fields = <<LeafField("name"), NodeField("value", value)>>]

AstLookup(value, arguments, line) ==
    [Node("AstLookup") EXCEPT !.lineno = line,
         !.fields = <<NodeField("value", value), ChildrenField("arguments", arguments)>>]

AstCall(value, arguments, line) ==
    [Node("AstCall") EXCEPT !.lineno = line,
         !.fields = <<NodeField("value", value), ChildrenField("arguments", arguments)>>]

AstAssignmentTargetIdentifier(v) ==
    [Node("AstAssignmentTargetIdentifier") EXCEPT !.value = <<v>>,
                                                  !.fields = <<LeafField("value")>>]

AstAssignment(operator, target, value) ==
    [Node("AstAssignment") EXCEPT !.operator = <<operator>>,
         !.fields = <<LeafField("operator"), NodeField("target", target),
                      NodeField("value", value)>>]

(* An argument of a function signature; default is None or Some(node).     *)
AstFunctionSignatureArgument(name, default) ==
    [Node("AstFunctionSignatureArgument") EXCEPT !.name = <<name>>,
         !.fields = <<LeafField("name"),
                      IF default = None THEN LeafField("default")
                      ELSE NodeField("default", default[1])>>]

AstFunctionSignature(name, arguments) ==
    [Node("AstFunctionSignature") EXCEPT !.name = <<name>>,
         !.fields = <<LeafField("name"), ChildrenField("arguments", arguments)>>]

arguments(node) == node.fields[2].nodes
commands(node) == node.fields[1].nodes

-----------------------------------------------------------------------------
(* Children collectors.  A collector is its class (kind), its start_index  *)
(* and its children; the Accumulator it holds is passed along.             *)

Collector(kind, index) == [kind |-> kind, start_index |-> index, children |-> <<>>]

RECURSIVE MakeRefs(_, _, _)
MakeRefs(c, a, args) ==
    IF args = <<>> THEN [collector |-> c, acc |-> a]
    ELSE LET r == make_ref(a, Head(args))
         IN MakeRefs([c EXCEPT !.children = Append(@, r.result)], r.acc, Tail(args))

add_static(c, a, args) ==
    IF c.kind = "ChildrenCollector" THEN MakeRefs(c, a, args)
    ELSE IF Len(args) > 1
    THEN LET r == make_ref_slice(a, args)
         IN [collector |-> c,
             acc |-> statement(r.acc, <<"_mecha_runtime.commands.extend(">>
                                        \o r.result \o <<")">>)]
    ELSE IF args # <<>>
    THEN LET r == make_ref(a, args[1])
         IN [collector |-> c,
             acc |-> statement(r.acc, <<"_mecha_runtime.commands.append(">>
                                        \o r.result \o <<")">>)]
    ELSE [collector |-> c, acc |-> a]

RECURSIVE AppendStatements(_, _)
AppendStatements(a, args) ==
    IF args = <<>> THEN a
    ELSE AppendStatements(
            statement(a, <<"_mecha_runtime.commands.append(">> \o Head(args) \o <<")">>),
            Tail(args))

add_dynamic(c, a, args) ==
    IF c.kind = "ChildrenCollector"
    THEN [collector |-> [c EXCEPT !.children = @ \o args], acc |-> a]
    ELSE [collector |-> c, acc |-> AppendStatements(a, args)]

(* A root flush that re-indents the buffer from its first entry.           *)
flush_indents_all(c, a) ==
    IF c.kind = "RootCommandCollector"
    THEN LET v == make_variable(a)
             indented == [i \in 1..Len(v.acc.lines) |-> <<INDENT>> \o v.acc.lines[i]]
             with == v.acc.indentation \o <<"with _mecha_runtime.scope() as ">>
                       \o v.result \o <<":", NL>>
         IN helper([v.acc EXCEPT !.lines = SubSeq(indented, 1, c.start_index) \o <<with>>
                                     \o SubSeq(indented, c.start_index + 1, Len(indented))],
                   <<"children">>, <<v.result>>)
    ELSE children(a, c.children)

flush(c, a) ==
    IF c.kind = "RootCommandCollector"
    THEN LET v == make_variable(a)
             kept == SubSeq(v.acc.lines, 1, c.start_index)
             moved == SubSeq(v.acc.lines, c.start_index + 1, Len(v.acc.lines))
             indented == [i \in 1..Len(moved) |-> <<INDENT>> \o moved[i]]
             with == v.acc.indentation \o <<"with _mecha_runtime.scope() as ">>
                       \o v.result \o <<":", NL>>
         IN helper([v.acc EXCEPT !.lines = kept \o <<with>> \o indented],
                   <<"children">>, <<v.result>>)
    ELSE children(a, c.children)

-----------------------------------------------------------------------------
(* The generators, run to completion by the dispatch engine: each returns  *)
(* the Accumulator it leaves, its result and whether it raised.  An error  *)
(* unwinds the generator it is raised in; once it has left that generator  *)
(* it is in the hands of the engine (escaped), and the rules that wait for *)
(* the result of the child stay suspended at their yield: `suspended` is   *)
(* the indentation saved by each block() they hold open, innermost first.  *)

Return(a, result) ==
    [acc |-> a, result |-> result, raised |-> FALSE, escaped |-> FALSE,
     suspended |-> <<>>]
Raise(a) ==
    [acc |-> a, result |-> None, raised |-> TRUE, escaped |-> FALSE,
     suspended |-> <<>>]

(* The error of a rule as the rule that yielded the node meets it.         *)
Escaped(r) == IF r.raised THEN [r EXCEPT !.escaped = TRUE] ELSE r

(* "with acc.block()" met by an error: raised in this generator, the       *)
(* finally clause restores the indentation; escaped from a child, the      *)
(* generator stays suspended inside the block.                             *)
Unwound(r, previous_indentation) ==
    IF r.escaped THEN [r EXCEPT !.suspended = Append(@, previous_indentation)]
    ELSE [r EXCEPT !.acc = block_exit(@, previous_indentation)]

(* The finally clauses of the suspended rules, run innermost first.        *)
RECURSIVE Finalized(_, _)
Finalized(a, saved) ==
    IF saved = <<>> THEN a ELSE Finalized(block_exit(a, Head(saved)), Tail(saved))

(* The engine is not part of codegen.py.  An engine that throws the error  *)
(* into the suspended rules (or closes them) runs their finally clauses;   *)
(* one that lets the error pass leaves them suspended, the indentation as  *)
(* it was when the error was raised.                                       *)
Thrown(r) == [r EXCEPT !.acc = Finalized(@, r.suspended), !.suspended = <<>>]

Engine(r, throws) == IF throws THEN Thrown(r) ELSE r

RECURSIVE Invoke(_, _)
RECURSIVE VisitMultipleLoop(_, _, _, _)
RECURSIVE VisitMultipleStep(_, _, _, _, _)
RECURSIVE VisitGenericLoop(_, _, _, _, _)
RECURSIVE VisitGenericStep(_, _, _, _, _, _)
RECURSIVE EmitAll(_, _)
RECURSIVE VisitAllLoop(_, _, _, _)
RECURSIVE VisitAllStep(_, _, _, _)
RECURSIVE DefaultsLoop(_, _, _, _)
RECURSIVE DefaultAssigned(_, _, _, _, _)

(* visit_single letting a result of zero or several fragments pass as      *)
(* unchanged.                                                              *)
SingleResultLenient(r, required) ==
    IF r.raised THEN r
    ELSE IF r.result = None
    THEN (IF required THEN Raise(r.acc) ELSE Return(r.acc, None))
    ELSE IF Len(r.result[1]) # 1 THEN Return(r.acc, None)
    ELSE Return(r.acc, Some(r.result[1][1]))

(* visit_single filling a required position whose child is unchanged with  *)
(* a placeholder instead of raising.                                       *)
SingleResultSubstitutes(r, required) ==
    IF r.raised THEN r
    ELSE IF r.result = None
    THEN (IF required THEN Return(r.acc, Some(<<"None">>)) ELSE Return(r.acc, None))
    ELSE IF Len(r.result[1]) # 1 THEN Raise(r.acc)
    ELSE Return(r.acc, Some(r.result[1][1]))

(* visit_single once "result = yield child" has produced r.                *)
SingleResult(r, required) ==
    IF r.raised THEN r
    ELSE IF r.result = None
    THEN (IF required THEN Raise(r.acc) ELSE Return(r.acc, None))
    ELSE IF Len(r.result[1]) # 1 THEN Raise(r.acc)
    ELSE Return(r.acc, Some(r.result[1][1]))

visit_single(node, required, a) == SingleResult(Invoke(node, a), required)

(* One turn of visit_multiple's loop for child i (from 1), then the rest.  *)
(* st: acc, current_count, collector (None until created), index.          *)
Flushed(s) == flush(s.collector, s.acc)

Collected(f) == Return(f.acc, Some(f.result))

(* The state of the loop after add_dynamic for child i.                    *)
Advanced(d, i) ==
    [acc |-> d.acc, current_count |-> i,
     collector |-> Some(d.collector), index |-> Len(d.acc.lines)]

(* collector.add_dynamic(result), on the lines put back after add_static.  *)
PutBack(s, lines, result) ==
    add_dynamic(s.collector, [s.acc EXCEPT !.lines = @ \o lines], result)

(* The body of "if result is not None" registering the static run below    *)
(* the lines of child i instead of above them.                             *)
ChangedInPlace(chs, i, st, kind, r) ==
    LET collector == IF st.collector = None
                     THEN Collector(kind, st.index) ELSE st.collector[1]
    IN Advanced(PutBack(add_static(collector, r.acc,
                                   SubSeq(chs, st.current_count + 1, i - 1)),
                        <<>>, r.result[1]),
                i)

(* The body of "if result is not None" for child i, whose visit left r.    *)
Changed(chs, i, st, kind, r) ==
    LET collector == IF st.collector = None
                     THEN Collector(kind, st.index) ELSE st.collector[1]
        lines == SubSeq(r.acc.lines, st.index + 1, Len(r.acc.lines))
        cut == [r.acc EXCEPT !.lines = SubSeq(@, 1, st.index)]
    IN Advanced(PutBack(add_static(collector, cut,
                                   SubSeq(chs, st.current_count + 1, i - 1)),
                        lines, r.result[1]),
                i)

VisitMultipleLoop(chs, i, st, kind) ==
    IF i > Len(chs)
    THEN IF st.collector # None
         THEN Collected(Flushed(add_static(st.collector[1], st.acc,
                                    SubSeq(chs, st.current_count + 1, Len(chs)))))
         ELSE Return(st.acc, None)
    ELSE VisitMultipleStep(chs, i, st, kind, Invoke(chs[i], st.acc))

(* The turn for child i once "result = yield child" has produced r.        *)
VisitMultipleStep(chs, i, st, kind, r) ==
    IF r.raised THEN r
    ELSE IF r.result = None
    THEN VisitMultipleLoop(chs, i + 1, [st EXCEPT !.acc = r.acc], kind)
    ELSE VisitMultipleLoop(chs, i + 1, Changed(chs, i, st, kind, r), kind)

visit_multiple(chs, a, kind) ==
    VisitMultipleLoop(chs, 1,
        [acc |-> a, current_count |-> 0, collector |-> None, index |-> Len(a.lines)],
        kind)

(* visit_generic's loop over the fields of node, from field i on.          *)
Replaced(ref, to_replace) == replace(ref.acc, ref.result, to_replace)

VisitGenericLoop(node, i, a, kind, to_replace) ==
    IF i > Len(node.fields)
    THEN IF to_replace = <<>> THEN Return(a, None)
         ELSE Collected(Replaced(make_ref(a, node), to_replace))
    ELSE LET f == node.fields[i]
         IN VisitGenericStep(node, i, kind, to_replace, f,
                IF f.type = "children" THEN visit_multiple(f.nodes, a, kind)
                ELSE IF f.type = "node" /\ f.nodes # <<>>
                THEN visit_single(f.nodes[1], FALSE, a)
                ELSE Return(a, None))

(* The turn for field f once its visit has produced r.                     *)
VisitGenericStep(node, i, kind, to_replace, f, r) ==
    IF r.raised THEN r
    ELSE VisitGenericLoop(node, i + 1, r.acc, kind,
            IF r.result # None
            THEN Append(to_replace, [k |-> f.name, v |-> r.result[1]])
            ELSE to_replace)

(* visit_generic registering the node before it knows of a change.         *)
visit_generic_registers_first(node, a, kind) ==
    VisitGenericLoop(node, 1, make_ref(a, node).acc, kind, <<>>)

visit_generic(node, a, kind) == VisitGenericLoop(node, 1, a, kind, <<>>)

ExtendCommands(ref) ==
    statement(ref.acc, <<"_mecha_runtime.commands.extend(">>
                         \o ref.result \o <<".commands)">>)

(* visit_body once visit_multiple has produced r.                          *)
BodyResult(node, r) ==
    IF r.raised THEN r
    ELSE IF r.result = None
    THEN Return(ExtendCommands(make_ref(r.acc, node)), None)
    ELSE Return(r.acc, None)

visit_body(node, a) ==
    BodyResult(node, visit_multiple(commands(node), a, "CommandCollector"))

-----------------------------------------------------------------------------
(* The rules of Codegen.                                                   *)

(* return [result], or None when result is None.                           *)
Listed(r) ==
    IF r.raised \/ r.result = None THEN r ELSE Return(r.acc, Some(<<r.result[1]>>))

fallback(node, a) == Listed(visit_generic(node, a, "ChildrenCollector"))

(* A root rule registering its commands as one slice up front.             *)
root_registers_commands(node, a) ==
    Listed(visit_generic(node, make_ref_slice(a, commands(node)).acc,
                         "RootCommandCollector"))

root(node, a) == Listed(visit_generic(node, a, "RootCommandCollector"))

StatementOf(value) ==
    IF value.raised THEN value
    ELSE IF value.result # None
    THEN Return(statement(value.acc, value.result[1]), Some(<<>>))
    ELSE Return(value.acc, Some(<<>>))

Codegen_statement(node, a) ==
    StatementOf(visit_single(arguments(node)[1], FALSE, a))

(* Leaving "with acc.block()" and returning []: the indentation is         *)
(* restored when the block is left.                                        *)
BlockLeft(body, previous_indentation) ==
    IF body.raised THEN Unwound(body, previous_indentation)
    ELSE Return(block_exit(body.acc, previous_indentation), Some(<<>>))

(* "with acc.block(): yield from visit_body(body, acc)" and "return []",   *)
(* after the header statement left the Accumulator as head.                *)
Body(body, head) == BlockLeft(visit_body(body, block_enter(head)), head.indentation)

IfBlock(node, head) == Body(arguments(node)[2], head)

IfHead(node, condition) ==
    IF condition.raised THEN condition
    ELSE IfBlock(node, statement(condition.acc,
                                 <<"if ">> \o condition.result[1] \o <<":">>))

if_statement(node, a) ==
    IfHead(node, visit_single(arguments(node)[1], TRUE, a))

pass_statement(node, a) == Return(statement(a, <<"pass">>), Some(<<>>))

(* AstResourceLocation.get_value(): "namespace:path", or the path alone.   *)
get_value(module) ==
    IF module.namespace # <<>> THEN module.namespace \o <<":">> \o module.path
    ELSE module.path

(* The names of a "from module import a, b" chain of subcommands.          *)
RECURSIVE ImportedNames(_)
ImportedNames(subcommand) ==
    LET name == arguments(subcommand)[1]
        this == IF name.kind = "AstImportedIdentifier" THEN <<name.value>> ELSE <<>>
    IN IF subcommand.identifier = "from:module:import:name:subcommand"
       THEN this \o ImportedNames(arguments(subcommand)[2])
       ELSE this

import_statement(node, a) ==
    LET first == statement(a, lineno(node))
        module == arguments(node)[1]
    IN IF node.identifier = "from:module:import:subcommand"
       THEN LET names == ImportedNames(arguments(node)[2])
            IN IF module.namespace # <<>>
               THEN Return(statement(first,
                        Join(COMMA, names) \o <<" = ", "_mecha_runtime.from_module_import(">>
                          \o repr(get_value(module)) \o COMMA
                          \o Join(COMMA, [i \in 1..Len(names) |-> repr(names[i])]) \o <<")">>),
                      Some(<<>>))
               ELSE Return(statement(first,
                        <<"from ">> \o module.path \o <<" import  ">> \o Join(COMMA, names)),
                      Some(<<>>))
       ELSE IF node.identifier = "import:module:as:alias"
       THEN LET alias == arguments(node)[2].value
            IN IF module.namespace # <<>>
               THEN Return(statement(first,
                        alias \o <<" = ", "_mecha_runtime.import_module(">>
                          \o repr(get_value(module)) \o <<")", ".namespace">>),
                      Some(<<>>))
               ELSE Return(statement(first,
                        <<"import ">> \o module.path \o <<" as ">> \o alias),
                      Some(<<>>))
       ELSE Return(statement(first, <<"import ">> \o module.path), Some(<<>>))

Interpolate(node, value, ref) ==
    helper(ref.acc, <<"interpolate_", node.converter>>, <<value.result[1], ref.result>>)

Parenthesized(node, result) ==
    Return(result.acc, Some(<< <<"(">> \o lineno(node) \o result.result \o <<")">> >>))

InterpolationOf(node, value) ==
    IF value.raised THEN value
    ELSE Parenthesized(node, Interpolate(node, value, make_ref(value.acc, node)))

interpolation(node, a) ==
    InterpolationOf(node, visit_single(node.fields[2].nodes[1], TRUE, a))

value(node, a) == Return(a, Some(<<repr(node.value)>>))

IdentifierFragment(node) == <<"(">> \o lineno(node) \o node.value \o <<")">>

identifier(node, a) == Return(a, Some(<<IdentifierFragment(node)>>))

(* "statement += f' {value}'; acc.statement(statement); return []"         *)
StatementWith(keyword, r) ==
    IF r.raised THEN r
    ELSE Return(statement(r.acc, keyword \o <<" ">> \o r.result[1]), Some(<<>>))

return_statement(node, a) ==
    IF arguments(node) # <<>>
    THEN StatementWith(<<"return">>, visit_single(arguments(node)[1], TRUE, a))
    ELSE Return(statement(a, <<"return">>), Some(<<>>))

yield_statement(node, a) ==
    LET keyword == IF node.identifier = "yield:from:value"
                   THEN <<"yield from">> ELSE <<"yield">>
    IN IF arguments(node) # <<>>
       THEN StatementWith(keyword, visit_single(arguments(node)[1], TRUE, a))
       ELSE Return(statement(a, keyword), Some(<<>>))

else_statement(node, a) == Body(arguments(node)[1], statement(a, <<"else:">>))

WhileHead(node, condition) ==
    IF condition.raised THEN condition
    ELSE Body(arguments(node)[2],
              statement(condition.acc, <<"while ">> \o condition.result[1] \o <<":">>))

while_statement(node, a) ==
    WhileHead(node, visit_single(arguments(node)[1], TRUE, a))

ForIterable(node, target, iterable) ==
    IF iterable.raised THEN iterable
    ELSE Body(arguments(node)[3],
              statement(iterable.acc, <<"for ">> \o target \o <<" in ">>
                                        \o iterable.result[1] \o <<":">>))

ForTarget(node, target) ==
    IF target.raised THEN target
    ELSE ForIterable(node, target.result[1],
                     visit_single(arguments(node)[2], TRUE, target.acc))

for_statement(node, a) == ForTarget(node, visit_single(arguments(node)[1], TRUE, a))

break_statement(node, a) == Return(statement(a, <<"break">>), Some(<<>>))

continue_statement(node, a) == Return(statement(a, <<"continue">>), Some(<<>>))

(* The function rule.  "if arg.default": a node is true, None is not.      *)
HasDefault(arg) == arg.fields[2].nodes # <<>>
Default(arg) == arg.fields[2].nodes[1]
SignatureArguments(node) == arguments(arguments(node)[1])

(* The list of parameters, from argument i on; st: acc, arguments.         *)
RECURSIVE Parameters(_, _, _)
Parameters(args, i, st) ==
    IF i > Len(args) THEN st
    ELSE IF HasDefault(args[i])
    THEN Parameters(args, i + 1,
            [acc |-> missing(st.acc).acc,
             arguments |-> Append(st.arguments,
                                  args[i].name \o <<"=">> \o missing(st.acc).result)])
    ELSE Parameters(args, i + 1, [st EXCEPT !.arguments = Append(@, args[i].name)])

FunctionHead(signature, a) ==
    LET p == Parameters(arguments(signature), 1, [acc |-> a, arguments |-> <<>>])
    IN statement(p.acc, <<"def ">> \o signature.name \o <<"(">>
                          \o Join(COMMA, p.arguments) \o <<"):">>)

IfMissing(arg, a) ==
    statement(missing(a).acc,
              <<"if ">> \o arg.name \o <<" is ">> \o missing(a).result \o <<":">>)

(* The loop over the arguments inside the block of the function, from      *)
(* argument i on, then the body; previous_indentation is what the block    *)
(* of the function has saved.                                              *)
DefaultsLoop(node, i, a, previous_indentation) ==
    IF i > Len(SignatureArguments(node))
    THEN BlockLeft(visit_body(arguments(node)[2], a), previous_indentation)
    ELSE IF HasDefault(SignatureArguments(node)[i])
    THEN DefaultAssigned(node, i, a.indentation, previous_indentation,
            visit_single(Default(SignatureArguments(node)[i]), TRUE,
                         block_enter(IfMissing(SignatureArguments(node)[i], a))))
    ELSE DefaultsLoop(node, i + 1, a, previous_indentation)

(* The inner block once the default of argument i has produced r: inner    *)
(* is what the inner block has saved.                                      *)
DefaultAssigned(node, i, inner, previous_indentation, r) ==
    IF r.raised THEN Unwound(Unwound(r, inner), previous_indentation)
    ELSE DefaultsLoop(node, i + 1,
            block_exit(statement(r.acc, SignatureArguments(node)[i].name \o <<" = ">>
                                          \o r.result[1]),
                       inner),
            previous_indentation)

function(node, a) ==
    DefaultsLoop(node, 1, block_enter(FunctionHead(arguments(node)[1], a)), a.indentation)

(* "for x in nodes: result = yield from visit_single(x, required=True)":   *)
(* the results in order, from node i on.                                   *)
VisitAllLoop(nodes, i, a, results) ==
    IF i > Len(nodes) THEN Return(a, Some(results))
    ELSE VisitAllStep(nodes, i, results, visit_single(nodes[i], TRUE, a))

VisitAllStep(nodes, i, results, r) ==
    IF r.raised THEN r
    ELSE VisitAllLoop(nodes, i + 1, r.acc, Append(results, r.result[1]))

visit_all(nodes, a) == VisitAllLoop(nodes, 1, a, <<>>)

(* The fragment "(<lineno><text>)".                                        *)
Fragment(node, a, text) ==
    Return(a, Some(<< <<"(">> \o lineno(node) \o text \o <<")">> >>))

(* s.replace(old, new) for a one-character old: a token that holds old is  *)
(* rewritten character by character.                                       *)
ReplaceToken(t, old, new) ==
    IF \A j \in 1..Len(t) : SubSeq(t, j, j) # old THEN <<t>>
    ELSE [j \in 1..Len(t) |-> IF Chars(t)[j] = old THEN new ELSE Chars(t)[j]]

str_replace(s, old, new) == Concat([i \in 1..Len(s) |-> ReplaceToken(s[i], old, new)])

BinaryRight(node, left, right) ==
    IF right.raised THEN right
    ELSE Fragment(node, right.acc,
                  left \o <<" ">> \o str_replace(node.operator, "_", " ") \o <<" ">> \o right.result[1])

BinaryLeft(node, left) ==
    IF left.raised THEN left
    ELSE BinaryRight(node, left.result[1],
                     visit_single(node.fields[3].nodes[1], TRUE, left.acc))

binary(node, a) == BinaryLeft(node, visit_single(node.fields[2].nodes[1], TRUE, a))

UnaryOf(node, r) ==
    IF r.raised THEN r
    ELSE Fragment(node, r.acc, str_replace(node.operator, "_", " ") \o <<" ">> \o r.result[1])

unary(node, a) == UnaryOf(node, visit_single(node.fields[2].nodes[1], TRUE, a))

FormatOf(node, r) ==
    IF r.raised THEN r
    ELSE Fragment(node, r.acc,
                  repr(node.fmt) \o <<".format(">> \o Join(COMMA, r.result[1]) \o <<")">>)

format_string(node, a) == FormatOf(node, visit_all(node.fields[2].nodes, a))

TupleOf(node, r) ==
    IF r.raised THEN r
    ELSE Fragment(node, r.acc,
                  <<"(">> \o Concat([i \in 1..Len(r.result[1]) |->
                                       r.result[1][i] \o <<",">>]) \o <<")">>)

tuple(node, a) == TupleOf(node, visit_all(node.fields[1].nodes, a))

ListOf(node, r) ==
    IF r.raised THEN r
    ELSE Fragment(node, r.acc, <<"[">> \o Join(COMMA, r.result[1]) \o <<"]">>)

list(node, a) == ListOf(node, visit_all(node.fields[1].nodes, a))

(* The key and the value of every item, in the order the rule visits them. *)
KeysAndValues(items) ==
    Concat([i \in 1..Len(items) |->
              <<items[i].fields[1].nodes[1], items[i].fields[2].nodes[1]>>])

DictOf(node, r) ==
    IF r.raised THEN r
    ELSE Fragment(node, r.acc,
                  <<"{">> \o Join(COMMA, [i \in 1..(Len(r.result[1]) \div 2) |->
                                            r.result[1][2 * i - 1] \o <<": ">>
                                              \o r.result[1][2 * i]])
                    \o <<"}">>)

dict(node, a) == DictOf(node, visit_all(KeysAndValues(node.fields[1].nodes), a))

AttributeOf(node, r) ==
    IF r.raised THEN r
    ELSE Parenthesized(node, helper(r.acc, <<"get_attribute">>,
                                    <<r.result[1], repr(node.name)>>))

attribute(node, a) == AttributeOf(node, visit_single(node.fields[2].nodes[1], TRUE, a))

(* lookup and call: the arguments first, then the value.                   *)
Applied(node, args, r, open, close) ==
    IF r.raised THEN r
    ELSE Fragment(node, r.acc,
                  r.result[1] \o <<open>> \o Join(COMMA, args) \o <<close>>)

ApplyTo(node, args, open, close) ==
    IF args.raised THEN args
    ELSE Applied(node, args.result[1],
                 visit_single(node.fields[1].nodes[1], TRUE, args.acc), open, close)

lookup(node, a) == ApplyTo(node, visit_all(arguments(node), a), "[", "]")

call(node, a) == ApplyTo(node, visit_all(arguments(node), a), "(", ")")

AssignedValue(node, target, r) ==
    IF r.raised THEN r
    ELSE Return(r.acc, Some(<< target \o <<" ">> \o node.operator \o <<" ">>
                                 \o r.result[1] >>))

AssignmentTarget(node, target) ==
    IF target.raised THEN target
    ELSE AssignedValue(node, target.result[1],
                       visit_single(node.fields[3].nodes[1], TRUE, target.acc))

assignment(node, a) ==
    AssignmentTarget(node, visit_single(node.fields[2].nodes[1], TRUE, a))

assignment_target_identifier(node, a) == Return(a, Some(<<node.value>>))

(* A rule of an extending rule set: emits its statements, returns its      *)
(* result.                                                                 *)
EmitAll(a, codes) ==
    IF codes = <<>> THEN a ELSE EmitAll(statement(a, Head(codes)), Tail(codes))

custom(node, a) == Return(EmitAll(a, node.emits), node.result)

(* The rule of Codegen for a command, by its identifier.                   *)
CommandRule(node, a) ==
    CASE node.identifier = "statement" -> Codegen_statement(node, a)
      [] node.identifier = "def:function:body" -> function(node, a)
      [] node.identifier \in {"return", "return:value"} -> return_statement(node, a)
      [] node.identifier \in {"yield", "yield:value", "yield:from:value"} ->
            yield_statement(node, a)
      [] node.identifier = "if:condition:body" -> if_statement(node, a)
      [] node.identifier = "else:body" -> else_statement(node, a)
      [] node.identifier = "while:condition:body" -> while_statement(node, a)
      [] node.identifier = "for:target:in:iterable:body" -> for_statement(node, a)
      [] node.identifier = "break" -> break_statement(node, a)
      [] node.identifier = "continue" -> continue_statement(node, a)
      [] node.identifier \in {"import:module", "import:module:as:alias",
                              "from:module:import:subcommand"} ->
            import_statement(node, a)
      [] node.identifier = "pass" -> pass_statement(node, a)
      [] OTHER -> fallback(node, a)

(* The rule of Codegen for a node: on its kind, for a command on its       *)
(* identifier, else the fallback.                                          *)
Dispatch(node, a) ==
    CASE node.kind = "AstRoot" -> root(node, a)
      [] node.kind = "AstCommand" -> CommandRule(node, a)
      [] node.kind = "AstInterpolation" -> interpolation(node, a)
      [] node.kind = "AstExpressionBinary" -> binary(node, a)
      [] node.kind = "AstExpressionUnary" -> unary(node, a)
      [] node.kind = "AstValue" -> value(node, a)
      [] node.kind = "AstIdentifier" -> identifier(node, a)
      [] node.kind = "AstFormatString" -> format_string(node, a)
      [] node.kind = "AstTuple" -> tuple(node, a)
      [] node.kind = "AstList" -> list(node, a)
      [] node.kind = "AstDict" -> dict(node, a)
      [] node.kind = "AstAttribute" -> attribute(node, a)
      [] node.kind = "AstLookup" -> lookup(node, a)
      [] node.kind = "AstCall" -> call(node, a)
      [] node.kind = "AstAssignment" -> assignment(node, a)
      [] node.kind = "AstAssignmentTargetIdentifier" ->
            assignment_target_identifier(node, a)
      [] node.kind = "Custom" -> custom(node, a)
      [] OTHER -> fallback(node, a)

(* Visitor.invoke with the rules of Codegen: the result of the rule, its   *)
(* error in the hands of the engine.                                       *)
Invoke(node, a) == Escaped(Dispatch(node, a))

(* Codegen.__call__                                                        *)
Compiled(output, final) ==
    [raised |-> FALSE, source |-> Some(get_source(final)),
     output |-> Some(output.result), refs |-> final.refs, acc |-> final]

Assigned(output, fragment) ==
    Compiled(output, statement(output.acc, output.result \o <<" = ">> \o fragment))

CodegenResult(result) ==
    LET failed == [raised |-> TRUE, source |-> None, output |-> None,
                   refs |-> <<>>, acc |-> result.acc]
    IN IF result.raised THEN failed
       ELSE IF result.result = None
       THEN [raised |-> FALSE, source |-> None, output |-> None,
             refs |-> result.acc.refs, acc |-> result.acc]
       ELSE IF Len(result.result[1]) # 1 THEN failed
       ELSE Assigned(make_variable(result.acc), result.result[1][1])

Codegen(node) == CodegenResult(Invoke(node, Accumulator))

-----------------------------------------------------------------------------
(* The inputs of the Accumulator operations.                               *)

ObjA == AstMessage("hello")
ObjB == AstValue("v")
Objs == {ObjA, ObjB}

RECURSIVE SeqsUpTo(_, _)
SeqsUpTo(S, n) ==
    IF n = 0 THEN {<<>>}
    ELSE LET shorter == SeqsUpTo(S, n - 1)
         IN shorter \cup {Append(q, x) : q \in {r \in shorter : Len(r) = n - 1}, x \in S}

(* Code given to statement(): a plain statement, the fragment of an        *)
(* identifier with a known location, and the bare marker that              *)
(* import_statement emits first.                                           *)
StatementCodes ==
    { <<"pass">>,
      IdentifierFragment(AstIdentifier("x", 1)),
      IdentifierFragment(AstIdentifier("y", 2)),
      lineno(AstIdentifier("z", 2)),
      lineno(AstIdentifier("z", 12)) }

HelperNames == {<<"get_attribute">>, <<"missing">>}
HelperArgs == { <<>>, << <<"a">>, <<"b">> >> }

-----------------------------------------------------------------------------
(* Spec: any sequence of operations on one Accumulator.                    *)

Record(name, pre, result) == [name |-> name, pre |-> pre, result |-> result]

Init ==
    /\ acc = Accumulator
    /\ op = Record("init", Accumulator, None)
    /\ issued = <<>>
    /\ calls = <<>>
    /\ blocks = <<>>
    /\ nops = 0
    /\ rules = <<>>
    /\ tree = None
    /\ stack = <<>>
    /\ handled = <<>>

Statement(code) ==
    /\ nops < MaxOps
    /\ acc' = statement(acc, code)
    /\ op' = Record("statement", acc, None)
    /\ nops' = nops + 1
    /\ UNCHANGED <<issued, calls, blocks>>
    /\ UNCHANGED dispatchVars

MakeRef(obj) ==
    /\ nops < MaxOps
    /\ LET r == make_ref(acc, obj)
       IN /\ acc' = r.acc
          /\ op' = Record("make_ref", acc, r.result)
          /\ issued' = Append(issued, [expr |-> r.result, objs |-> <<obj>>])
    /\ nops' = nops + 1
    /\ UNCHANGED <<calls, blocks>>
    /\ UNCHANGED dispatchVars

MakeRefSlice(objs) ==
    /\ nops < MaxOps
    /\ LET r == make_ref_slice(acc, objs)
       IN /\ acc' = r.acc
          /\ op' = Record("make_ref_slice", acc, r.result)
          /\ issued' = Append(issued, [expr |-> r.result, objs |-> objs])
    /\ nops' = nops + 1
    /\ UNCHANGED <<calls, blocks>>
    /\ UNCHANGED dispatchVars

MakeVariable ==
    /\ nops < MaxOps
    /\ LET r == make_variable(acc)
       IN /\ acc' = r.acc
          /\ op' = Record("make_variable", acc, r.result)
    /\ nops' = nops + 1
    /\ UNCHANGED <<issued, calls, blocks>>
    /\ UNCHANGED dispatchVars

Called(opname, name, r) ==
    /\ acc' = r.acc
    /\ op' = Record(opname, acc, r.result)
    /\ calls' = Append(calls, [name |-> name, expr |-> r.result])
    /\ nops' = nops + 1
    /\ UNCHANGED <<issued, blocks>>
    /\ UNCHANGED dispatchVars

Helper(name, args) ==
    /\ nops < MaxOps
    /\ Called("helper", name, helper(acc, name, args))

Replace(node, kwargs) ==
    /\ nops < MaxOps
    /\ Called("replace", <<"replace">>, replace(acc, node, kwargs))

Children(nodes) ==
    /\ nops < MaxOps
    /\ Called("children", <<"children">>, children(acc, nodes))

Missing ==
    /\ nops < MaxOps
    /\ Called("missing", <<"missing">>, missing(acc))

BlockEnter ==
    /\ nops < MaxOps
    /\ Len(blocks) < MaxDepth
    /\ acc' = block_enter(acc)
    /\ blocks' = Append(blocks, acc.indentation)
    /\ op' = Record("block_enter", acc, None)
    /\ nops' = nops + 1
    /\ UNCHANGED <<issued, calls>>
    /\ UNCHANGED dispatchVars

BlockExit ==
    /\ nops < MaxOps
    /\ blocks # <<>>
    /\ acc' = block_exit(acc, blocks[Len(blocks)])
    /\ blocks' = SubSeq(blocks, 1, Len(blocks) - 1)
    /\ op' = Record("block_exit", acc, None)
    /\ nops' = nops + 1
    /\ UNCHANGED <<issued, calls>>
    /\ UNCHANGED dispatchVars

(* An error raised inside the innermost block leaves it through the       *)
(* finally clause.                                                         *)
BlockRaise ==
    /\ nops < MaxOps
    /\ blocks # <<>>
    /\ acc' = block_exit(acc, blocks[Len(blocks)])
    /\ blocks' = SubSeq(blocks, 1, Len(blocks) - 1)
    /\ op' = Record("block_raise", acc, None)
    /\ nops' = nops + 1
    /\ UNCHANGED <<issued, calls>>
    /\ UNCHANGED dispatchVars

GetSource ==
    /\ op.name # "get_source"
    /\ op' = Record("get_source", acc, get_source(acc))
    /\ UNCHANGED <<acc, issued, calls, blocks, nops>>
    /\ UNCHANGED dispatchVars

Next ==
    \/ \E code \in StatementCodes : Statement(code)
    \/ \E obj \in Objs : MakeRef(obj)
    \/ \E objs \in SeqsUpTo(Objs, MaxSlice) : MakeRefSlice(objs)
    \/ MakeVariable
    \/ \E name \in HelperNames, args \in HelperArgs : Helper(name, args)
    \/ Replace(<<"_mecha_refs[", "0", "]">>, <<[k |-> "arguments", v |-> <<"x">>]>>)
    \/ Children(<< <<"a">> >>)
    \/ Missing
    \/ BlockEnter
    \/ BlockExit
    \/ BlockRaise
    \/ GetSource

Spec == Init /\ [][Next]_vars

-----------------------------------------------------------------------------
(* SpecVisit: visit_multiple and visit_single run by the dispatch engine   *)
(* on an Accumulator that earlier emission has already written to.         *)

Say(text) == AstCommand("say:message", <<AstMessage(text)>>, 0)
Pass == AstCommand("pass", <<>>, 0)
Interpolated == AstInterpolation("json", AstIdentifier("x", 3), 3)
SayInterpolated == AstCommand("say:message", <<AstMessage("hello"), Interpolated>>, 0)
TwoFragments == Custom(<< <<"s = f()">>, <<"t = g()">> >>, Some(<< <<"s">>, <<"t">> >>))
NoFragment == Custom(<<>>, Some(<<>>))
Unchanged == Custom(<<>>, None)
Stmt(expression) == AstCommand("statement", <<expression>>, 0)
If(condition, body) == AstCommand("if:condition:body", <<condition, AstRoot(body)>>, 0)
SetBlock(block_id) == AstCommand("setblock:block", <<AstBlock(block_id, <<>>)>>, 0)
(* An if statement whose body raises while the block of the outer one is   *)
(* open: the nested if statement has a condition without a result.         *)
IfNestedRaising == If(AstIdentifier("x", 1), <<If(AstMessage("hello"), <<Pass>>)>>)
Quoted == AstValue("it's")

VisitChildren == {Say("hello"), Say("bye"), Pass, SayInterpolated, TwoFragments}

SingleChildren ==
    { AstMessage("hello"), AstValue("v"), Interpolated, Pass, TwoFragments, NoFragment,
      Unchanged, SetBlock(Interpolated), If(AstMessage("hello"), <<Pass>>),
      IfNestedRaising, Quoted }

CollectorKinds == {"CommandCollector", "RootCommandCollector"}

(* What an enclosing rule has done to the Accumulator before it suspends   *)
(* into a child: a statement, a registered object, an opened block.        *)
Prepare ==
    /\ op.name \in {"init", "prepare"}
    /\ nops < MaxPrelude
    /\ \/ acc' = statement(acc, <<"pass">>) /\ UNCHANGED <<issued, blocks>>
       \/ /\ acc' = make_ref(acc, ObjA).acc
          /\ issued' = Append(issued, [expr |-> make_ref(acc, ObjA).result, objs |-> <<ObjA>>])
          /\ UNCHANGED blocks
       \/ /\ acc' = block_enter(acc)
          /\ blocks' = Append(blocks, acc.indentation)
          /\ UNCHANGED issued
    /\ op' = Record("prepare", acc, None)
    /\ nops' = nops + 1
    /\ UNCHANGED calls
    /\ UNCHANGED dispatchVars

(* A visit run to its end by an engine that throws an error into the      *)
(* suspended rules, or by one that does not.                               *)
Ran(name, input, r) ==
    /\ op.name \in {"init", "prepare"}
    /\ \E throws \in BOOLEAN :
         /\ acc' = Engine(r, throws).acc
         /\ op' = [name |-> name, pre |-> acc, input |-> input,
                   result |-> r.result, raised |-> r.raised,
                   suspended |-> Engine(r, throws).suspended]
    /\ UNCHANGED <<issued, calls, blocks, nops>>
    /\ UNCHANGED dispatchVars

VisitMultiple(chs, kind) ==
    Ran("visit_multiple", [children |-> chs, kind |-> kind], visit_multiple(chs, acc, kind))

VisitSingle(node, required) ==
    Ran("visit_single", [node |-> node, required |-> required],
        visit_single(node, required, acc))

NextVisit ==
    \/ Prepare
    \/ \E chs \in SeqsUpTo(VisitChildren, MaxChildren), kind \in CollectorKinds :
         VisitMultiple(chs, kind)
    \/ \E node \in SingleChildren, required \in BOOLEAN : VisitSingle(node, required)

SpecVisit == Init /\ [][NextVisit]_vars

-----------------------------------------------------------------------------
(* SpecCodegen: the rule set run by the dispatch engine on a subtree, and  *)
(* the top-level driver run on a root.                                     *)

PlainModule == AstResourceLocation(<<>>, <<"math">>)
VirtualModule == AstResourceLocation(<<"demo">>, <<"foo">>)
Modules == {PlainModule, VirtualModule}

ImportModule(module) == AstCommand("import:module", <<module>>, 4)
ImportAs(module) ==
    AstCommand("import:module:as:alias", <<module, AstImportedIdentifier("m")>>, 4)
FromImport(module) ==
    AstCommand("from:module:import:subcommand",
        <<module,
          AstCommand("from:module:import:name:subcommand",
              <<AstImportedIdentifier("a"),
                AstCommand("from:module:import:name", <<AstImportedIdentifier("b")>>, 0)>>,
              0)>>,
        4)

Imports == {ImportModule(m) : m \in Modules} \cup {ImportAs(m) : m \in Modules}
             \cup {FromImport(m) : m \in Modules}

StaticCommands == {Say("hello"), Say("bye"), SetBlock(PlainModule)}

Break == AstCommand("break", <<>>, 0)
Continue == AstCommand("continue", <<>>, 0)
Else(body) == AstCommand("else:body", <<AstRoot(body)>>, 0)
While(condition, body) ==
    AstCommand("while:condition:body", <<condition, AstRoot(body)>>, 0)
For(target, iterable, body) ==
    AstCommand("for:target:in:iterable:body", <<target, iterable, AstRoot(body)>>, 0)
ReturnNothing == AstCommand("return", <<>>, 0)
ReturnValue(expression) == AstCommand("return:value", <<expression>>, 0)
YieldNothing == AstCommand("yield", <<>>, 0)
YieldValue(expression) == AstCommand("yield:value", <<expression>>, 0)
YieldFrom(expression) == AstCommand("yield:from:value", <<expression>>, 0)

(* def f(a, x=<default>) with a body.                                      *)
Def(default, body) ==
    AstCommand("def:function:body",
        <<AstFunctionSignature("f",
              <<AstFunctionSignatureArgument("a", None),
                AstFunctionSignatureArgument("x", Some(default))>>),
          AstRoot(body)>>,
        0)

(* x not_in ['v', "it's"]                                                  *)
NotIn ==
    AstExpressionBinary("not_in", AstIdentifier("x", 1),
                        AstList(<<AstValue("v"), Quoted>>, 0), 5)

Expressions ==
    { NotIn,
      AstExpressionUnary("not", AstIdentifier("x", 0), 2),
      AstFormatString("{} and {}", <<AstIdentifier("x", 0), AstValue("v")>>, 3),
      AstFormatString("a\\b\n", <<>>, 0),
      AstTuple(<<AstValue("v"), AstIdentifier("y", 0)>>, 0),
      AstDict(<<AstDictItem(AstValue("k"), AstIdentifier("x", 0)),
                AstDictItem(AstValue("l"), AstValue("v"))>>, 2),
      AstAttribute("real", AstIdentifier("x", 0), 1),
      AstLookup(AstIdentifier("x", 0), <<AstValue("v"), AstIdentifier("y", 0)>>, 0),
      AstCall(AstIdentifier("f", 2), <<AstValue("v"), AstMessage("hello")>>, 2),
      AstCall(AstIdentifier("f", 0), <<>>, 0),
      AstAssignment("+=", AstAssignmentTargetIdentifier("y"), AstIdentifier("x", 0)),
      AstExpressionBinary("+", AstMessage("hello"), AstValue("v"), 0),
      Quoted, AstValue("say \"it's\"") }

Statements ==
    { Break, Continue, ReturnNothing, YieldNothing,
      ReturnValue(AstIdentifier("x", 1)), ReturnValue(AstMessage("hello")),
      YieldValue(AstValue("v")), YieldFrom(AstCall(AstIdentifier("f", 0), <<>>, 0)),
      Else(<<Pass>>), Else(<<Say("hello")>>), Else(<<If(AstMessage("hello"), <<Pass>>)>>),
      While(AstValue("v"), <<Break>>), While(AstMessage("hello"), <<Break>>),
      While(AstValue("v"), <<SayInterpolated, IfNestedRaising>>),
      For(AstAssignmentTargetIdentifier("i"), AstIdentifier("x", 0), <<Continue>>),
      For(AstAssignmentTargetIdentifier("i"), AstMessage("hello"), <<Continue>>),
      Def(AstValue("v"), <<ReturnValue(AstIdentifier("x", 0))>>),
      Def(AstMessage("hello"), <<Pass>>),
      Def(AstInterpolation("json", AstMessage("hello"), 0), <<Pass>>),
      Def(AstValue("v"), <<IfNestedRaising>>) }

TopCommands ==
    StaticCommands \cup
    { SayInterpolated, Stmt(AstIdentifier("x", 1)),
      If(AstValue("v"), <<Say("hello")>>), If(AstMessage("hello"), <<Pass>>),
      ImportModule(VirtualModule), While(AstValue("v"), <<Break>>),
      Def(AstValue("v"), <<ReturnValue(AstIdentifier("x", 0))>>) }

Roots == {AstRoot(cs) : cs \in SeqsUpTo(TopCommands, MaxCommands)}

Subtrees ==
    TopCommands \cup Imports \cup
    {AstRoot(cs) : cs \in SeqsUpTo(StaticCommands, 2)} \cup
    { AstMessage("hello"), PlainModule, AstBlock(PlainModule, <<>>), Interpolated,
      SetBlock(Interpolated), Stmt(AstMessage("hello")), Pass,
      If(Interpolated, <<Say("hello"), SayInterpolated>>),
      If(AstIdentifier("x", 1), <<Say("hello"), Say("bye")>>),
      IfNestedRaising }
    \cup Expressions \cup Statements

InvokeNode(node) == Ran("invoke", [node |-> node], Invoke(node, acc))

(* Codegen.__call__ works on an Accumulator of its own.                    *)
CodegenCall(node) ==
    /\ op.name = "init"
    /\ LET r == Codegen(node)
       IN /\ acc' = r.acc
          /\ op' = [name |-> "codegen", pre |-> Accumulator, input |-> [node |-> node],
                    result |-> [source |-> r.source, output |-> r.output, refs |-> r.refs],
                    raised |-> r.raised]
    /\ UNCHANGED <<issued, calls, blocks, nops>>
    /\ UNCHANGED dispatchVars

NextCodegen ==
    \/ Prepare
    \/ \E node \in Subtrees : InvokeNode(node)
    \/ \E node \in Roots : CodegenCall(node)

SpecCodegen == Init /\ [][NextCodegen]_vars

-----------------------------------------------------------------------------
(* The dispatch engine (Visitor), as the specification describes it and as *)
(* tests/test_dispatch.py uses it.  A rule is a node kind, an optional     *)
(* constraint field = value, and a handler; "AstNode" is the kind of every *)
(* node.                                                                   *)

Rule(kind, constraints, handler) ==
    [kind |-> kind, constraints |-> constraints, handler |-> handler]

(* rule(AstNumber)(numbers.append)                                         *)
NumbersRule == Rule("AstNumber", <<>>, "numbers")

(* Foo.default: @rule on every node, "yield from node".                    *)
DefaultRule == Rule("AstNode", <<>>, "default")

(* Foo.seven: @rule(AstNumber, value=7)                                    *)
SevenRule == Rule("AstNumber", << <<"7">> >>, "seven")

(* The visitors composed with extend, the rules in registration order;     *)
(* the first is the one of test_visitor_extend.                            *)
Visitors ==
    { <<NumbersRule, DefaultRule, SevenRule>>,
      <<DefaultRule, SevenRule, NumbersRule>>,
      <<SevenRule, NumbersRule, DefaultRule>> }

AstNumber(v) ==
    [Node("AstNumber") EXCEPT !.value = <<v>>, !.fields = <<LeafField("value")>>]

AstCoordinate(v) ==
    [Node("AstCoordinate") EXCEPT !.value = <<v>>,
                                  !.fields = <<LeafField("type"), LeafField("value")>>]

AstVector3(x, y, z) ==
    [Node("AstVector3") EXCEPT
         !.fields = <<NodeField("x", x), NodeField("y", y), NodeField("z", z)>>]

AstDustParticleParameters(red, green, blue, size) ==
    [Node("AstDustParticleParameters") EXCEPT
         !.fields = <<NodeField("red", red), NodeField("green", green),
                      NodeField("blue", blue), NodeField("size", size)>>]

AstParticle(name, parameters) ==
    [Node("AstParticle") EXCEPT
         !.fields = <<NodeField("name", name), NodeField("parameters", parameters)>>]

(* mc.parse("particle dust <red> <green> <blue> <size> 7 7 7")             *)
ParticleDust(red, green, blue, size) ==
    AstCommand("particle:name:pos",
        <<AstParticle(AstResourceLocation(<<>>, <<"dust">>),
                      AstDustParticleParameters(AstNumber(red), AstNumber(green),
                                                AstNumber(blue), AstNumber(size))),
          AstVector3(AstCoordinate("7"), AstCoordinate("7"), AstCoordinate("7"))>>,
        0)

NumberValues == {"1", "0.5", "7"}

Trees ==
    {ParticleDust(r, g, b, s) : r \in NumberValues, g \in NumberValues,
                                b \in NumberValues, s \in NumberValues}

(* "yield from node": the child nodes of a node, field by field.           *)
ChildNodes(node) == Concat([i \in 1..Len(node.fields) |-> node.fields[i].nodes])

(* The rule matches the node: its kind is the node's or the kind of every  *)
(* node, and its constraint, if any, equals the node's field.              *)
Matches(r, node) ==
    /\ r.kind \in {node.kind, "AstNode"}
    /\ \A i \in 1..Len(r.constraints) : node.value = r.constraints[i]

(* Rule i of rs is at least as good a match as rule j: a rule on the kind  *)
(* of the node before the rule on every node, then the most constraints,   *)
(* then the later registration.                                            *)
Better(rs, i, j) ==
    LET own(k) == IF rs[k].kind = "AstNode" THEN 0 ELSE 1
    IN \/ own(i) > own(j)
       \/ own(i) = own(j) /\ Len(rs[i].constraints) > Len(rs[j].constraints)
       \/ own(i) = own(j) /\ Len(rs[i].constraints) = Len(rs[j].constraints) /\ i >= j

(* Resolution that ignores the number of constraints.                      *)
ResolveByRecency(rs, node) ==
    LET matching == {i \in 1..Len(rs) : Matches(rs[i], node)}
        own(k) == IF rs[k].kind = "AstNode" THEN 0 ELSE 1
    IN rs[CHOOSE i \in matching :
              \A j \in matching : own(i) > own(j) \/ (own(i) = own(j) /\ i >= j)]

(* The single best match among the rules of the composed visitor.          *)
Resolve(rs, node) ==
    LET matching == {i \in 1..Len(rs) : Matches(rs[i], node)}
    IN rs[CHOOSE i \in matching : \A j \in matching : Better(rs, i, j)]

(* A suspended handler: the node it was called on and how many of its      *)
(* children it has yielded.                                                *)
Frame(node) == [node |-> node, yielded |-> 0]

(* The engine calls the handler of the best rule on node: "default"        *)
(* suspends at its first yield, the others return at once.                 *)
Dispatched(node, frames) ==
    /\ handled' = Append(handled, [handler |-> Resolve(rules, node).handler, node |-> node])
    /\ stack' = IF Resolve(rules, node).handler = "default"
                THEN Append(frames, Frame(node)) ELSE frames

(* visitor.extend(...)                                                     *)
Extend(rs) ==
    /\ rules = <<>>
    /\ rules' = rs
    /\ UNCHANGED <<tree, stack, handled, acc, op, issued, calls, blocks, nops>>

(* visitor.invoke(ast)                                                     *)
InvokeTree(ast) ==
    /\ rules # <<>>
    /\ tree = None
    /\ tree' = Some(ast)
    /\ Dispatched(ast, stack)
    /\ UNCHANGED <<rules, acc, op, issued, calls, blocks, nops>>

(* The handler on top yields its next child and the engine invokes it.     *)
Yield ==
    /\ stack # <<>>
    /\ LET top == stack[Len(stack)]
           nodes == ChildNodes(top.node)
       IN /\ top.yielded < Len(nodes)
          /\ Dispatched(nodes[top.yielded + 1],
                        [stack EXCEPT ![Len(stack)].yielded = top.yielded + 1])
    /\ UNCHANGED <<rules, tree, acc, op, issued, calls, blocks, nops>>

(* The handler on top has no child left and returns to the one below.      *)
Finish ==
    /\ stack # <<>>
    /\ stack[Len(stack)].yielded = Len(ChildNodes(stack[Len(stack)].node))
    /\ stack' = SubSeq(stack, 1, Len(stack) - 1)
    /\ UNCHANGED <<rules, tree, handled, acc, op, issued, calls, blocks, nops>>

NextDispatch ==
    \/ \E rs \in Visitors : Extend(rs)
    \/ \E ast \in Trees : InvokeTree(ast)
    \/ Yield
    \/ Finish

SpecDispatch == Init /\ [][NextDispatch]_vars

-----------------------------------------------------------------------------
(* Reading generated text back: what the runtime and a reader of the text  *)
(* see.  These are used by the properties only.                            *)

FirstIndex(s, tok) == CHOOSE i \in 1..Len(s) : s[i] = tok /\ \A j \in 1..(i - 1) : s[j] # tok

IsDigits(s) == s # <<>> /\ \A i \in 1..Len(s) : \E d \in 1..10 : Digits[d] = s[i]

(* The integers of a list literal's inside, "1, 5".                        *)
ParseInts(s) ==
    IF s = <<>> THEN <<>>
    ELSE LET parts == SplitOn(s, ", ") IN [i \in 1..Len(parts) |-> int(parts[i])]

(* The two lists of the table line "_mecha_lineno = [..], [..]".           *)
TableOf(line) ==
    LET close1 == FirstIndex(line, "]")
        inside1 == SubSeq(line, 3, close1 - 1)
        inside2 == SubSeq(line, close1 + 3, Len(line) - 1)
    IN [numbers1 |-> ParseInts(inside1), numbers2 |-> ParseInts(inside2)]

WellFormedTable(line) ==
    /\ Len(line) >= 6
    /\ line[1] = "_mecha_lineno = "
    /\ line[2] = "["
    /\ \E i \in 1..Len(line) : line[i] = "]"
    /\ LET t == TableOf(line)
       IN line = <<"_mecha_lineno = ">> \o ReprList(t.numbers1) \o COMMA \o ReprList(t.numbers2)

(* The objects an expression "_mecha_refs[i]" or "_mecha_refs[i:j]"        *)
(* designates in a reference table.                                        *)
Deref(expr, refs) ==
    LET inside == SubSeq(expr, 2, Len(expr) - 1)
        parts == SplitOn(inside, ":")
    IN IF Len(parts) = 1
       THEN (IF int(parts[1]) + 1 <= Len(refs) THEN <<refs[int(parts[1]) + 1]>> ELSE <<>>)
       ELSE SubSeq(refs, int(parts[1]) + 1, int(parts[2]))

StartsWith(s, prefix) ==
    Len(s) >= Len(prefix) /\ SubSeq(s, 1, Len(prefix)) = prefix

Count(ss, x) == Cardinality({i \in 1..Len(ss) : ss[i] = x})

-----------------------------------------------------------------------------
(* What the properties of the visits read.                                 *)

(* The result of the rule for a node is unchanged (None).                  *)
ReturnsUnchanged(node) ==
    LET r == Invoke(node, Accumulator) IN ~r.raised /\ r.result = None

(* The lines the last operation added below those it found.                *)
AddedLines == SubSeq(acc.lines, Len(op.pre.lines) + 1, Len(acc.lines))

(* The buffer after one registration of a run of unchanged children: no    *)
(* statement for an empty run, an append of one reference for one child,   *)
(* an extend by one slice for several.                                     *)
Registered(a, run) ==
    IF run = <<>> THEN a
    ELSE IF Len(run) = 1
    THEN statement(make_ref(a, run[1]).acc,
                   <<"_mecha_runtime.commands.append(">> \o make_ref(a, run[1]).result
                     \o <<")">>)
    ELSE statement(make_ref_slice(a, run).acc,
                   <<"_mecha_runtime.commands.extend(">> \o make_ref_slice(a, run).result
                     \o <<")">>)

(* The buffer after one append per fragment.                               *)
RECURSIVE Spliced(_, _)
Spliced(a, fragments) ==
    IF fragments = <<>> THEN a
    ELSE Spliced(statement(a, <<"_mecha_runtime.commands.append(">> \o Head(fragments)
                                \o <<")">>),
                 Tail(fragments))

(* The buffer laid out in the order of C1, from child k on: a holds the    *)
(* buffer so far, start is the first child after the last changed one.     *)
(* With always, the trailing run is registered also when no child changed. *)
RECURSIVE Layout(_, _, _, _, _)
Layout(chs, k, a, start, always) ==
    IF k > Len(chs)
    THEN IF start > 1 \/ always
         THEN Registered(a, SubSeq(chs, start, Len(chs))) ELSE a
    ELSE LET r == Invoke(chs[k], a)
             own == SubSeq(r.acc.lines, Len(a.lines) + 1, Len(r.acc.lines))
             run == Registered([r.acc EXCEPT !.lines = a.lines],
                               SubSeq(chs, start, k - 1))
         IN IF r.result = None THEN Layout(chs, k + 1, r.acc, start, always)
            ELSE Layout(chs, k + 1,
                        Spliced([run EXCEPT !.lines = @ \o own], r.result[1]),
                        k + 1, always)

(* A line registering children by reference, at indentation ind.           *)
IsRegistration(line, ind) ==
    /\ Len(line) >= Len(ind) + 5
    /\ SubSeq(line, 1, Len(ind)) = ind
    /\ line[Len(ind) + 1] \in {"_mecha_runtime.commands.append(",
                               "_mecha_runtime.commands.extend("}
    /\ line[Len(ind) + 2] = "_mecha_refs["
    /\ line[Len(line) - 2] = "]"

(* The children that the registrations among ls designate in refs, in      *)
(* buffer order.                                                           *)
RegisteredChildren(ls, ind, refs) ==
    Concat([i \in 1..Len(ls) |->
              IF IsRegistration(ls[i], ind)
              THEN Deref(SubSeq(ls[i], Len(ind) + 2, Len(ls[i]) - 2), refs)
              ELSE <<>>])

SomeChanged(chs) == \E i \in 1..Len(chs) : ~ReturnsUnchanged(chs[i])

CommandVisit ==
    /\ op.name = "visit_multiple"
    /\ op.input.kind = "CommandCollector"
    /\ ~op.raised

(* C1 (as amended): visit_multiple with the CommandCollector over children *)
(* of which at least one changes adds to the buffer, in buffer order, for  *)
(* each changed child k in index order, one registration of the run of     *)
(* unchanged children between the previous changed child (or the start)    *)
(* and k (none for an empty run), then k's own statements in the order k   *)
(* emitted them, then one append per fragment of k, and finally one        *)
(* registration of the trailing unchanged run; the registrations designate *)
(* every unchanged child exactly once, in child order.  When no child      *)
(* changes it adds nothing and returns unchanged.                          *)
C1_RunsAboveChangedChild ==
    CommandVisit =>
        LET chs == op.input.children
        IN /\ acc.lines = Layout(chs, 1, op.pre, 1, FALSE).lines
           /\ SubSeq(acc.lines, 1, Len(op.pre.lines)) = op.pre.lines
           /\ SomeChanged(chs) =>
                /\ op.result # None
                /\ RegisteredChildren(AddedLines, op.pre.indentation, acc.refs)
                     = SelectSeq(chs, ReturnsUnchanged)
           /\ ~SomeChanged(chs) => op.result = None /\ acc = op.pre

(* Two unchanged children, a changed child that emits two statements and   *)
(* returns two fragments, and an unchanged child, on a buffer that already *)
(* held a line.                                                            *)
C1_Witness ==
    /\ CommandVisit
    /\ op.input.children = <<Say("hello"), Say("bye"), TwoFragments, Say("hello")>>
    /\ op.pre.lines # <<>>
    /\ Len(AddedLines) = 6

(* C1 as stated: the trailing run is registered by visit_multiple whatever *)
(* the children, also when none of them changed.                           *)
C1_Original ==
    CommandVisit =>
        acc.lines = Layout(op.input.children, 1, op.pre, 1, TRUE).lines

(* C5: visit_single returns the only fragment of a one-fragment result,    *)
(* raises on a result of zero or several fragments, returns None for an    *)
(* unchanged child at an optional position and raises for one at a         *)
(* required position; when it raises no result is returned and compiling   *)
(* a root with the child at such a position is aborted without text or     *)
(* output variable.                                                        *)
C5_VisitSingleArity ==
    op.name = "visit_single" =>
        LET child == Invoke(op.input.node, op.pre)
            position == IF op.input.required THEN If(op.input.node, <<>>)
                        ELSE Stmt(op.input.node)
            compiled == Codegen(AstRoot(<<position>>))
        IN /\ child.raised => op.raised
           /\ (~child.raised /\ child.result # None /\ Len(child.result[1]) = 1) =>
                ~op.raised /\ op.result = Some(child.result[1][1])
           /\ (~child.raised /\ child.result # None /\ Len(child.result[1]) # 1) =>
                op.raised
           /\ (~child.raised /\ child.result = None /\ ~op.input.required) =>
                ~op.raised /\ op.result = None
           /\ (~child.raised /\ child.result = None /\ op.input.required) => op.raised
           /\ op.raised =>
                /\ op.result = None
                /\ compiled.raised
                /\ compiled.source = None
                /\ compiled.output = None

(* A result of two fragments has raised, at an optional position.          *)
C5_Witness ==
    /\ op.name = "visit_single"
    /\ op.input.node = TwoFragments
    /\ ~op.input.required
    /\ op.raised
    /\ Len(acc.lines) = Len(op.pre.lines) + 2

(* C6 (as amended): a required single-child position never compiles to an  *)
(* absence: visit_single either returns the child's only fragment or       *)
(* raises, and for a child whose result is unchanged it raises, leaving    *)
(* the accumulator as it was, with no reference to the child registered;   *)
(* if_statement then emits "if <fragment>:" or is aborted.                 *)
C6_RequiredChildArity ==
    (op.name = "visit_single" /\ op.input.required) =>
        LET child == Invoke(op.input.node, op.pre)
        IN /\ ~op.raised => op.result # None
           /\ (~child.raised /\ child.result = None) => op.raised /\ acc = op.pre
           /\ LET whole == Invoke(If(op.input.node, <<Pass>>), op.pre)
              IN /\ whole.raised <=> op.raised
                 /\ (~child.raised /\ child.result = None) => whole.acc = op.pre
                 /\ ~op.raised =>
                      whole.acc.lines[Len(acc.lines) + 1]
                        = op.pre.indentation \o <<"if ">> \o op.result[1] \o <<":", NL>>

(* A static message at a required position has raised, on a buffer that    *)
(* already held something.                                                 *)
C6_Witness ==
    /\ op.name = "visit_single"
    /\ op.input.required
    /\ op.input.node = AstMessage("hello")
    /\ op.raised
    /\ op.pre # Accumulator

(* C6 as stated: a required child whose result is unchanged yields a       *)
(* reference to the original node.                                         *)
C6_Original ==
    (op.name = "visit_single" /\ op.input.required
       /\ ReturnsUnchanged(op.input.node)) =>
        /\ ~op.raised
        /\ op.result # None
        /\ Deref(op.result[1], acc.refs) = <<op.input.node>>

-----------------------------------------------------------------------------
(* What the properties of the rule set read.                               *)

RuleIdentifiers ==
    {"statement", "def:function:body", "return", "return:value", "yield",
     "yield:value", "yield:from:value", "if:condition:body", "else:body",
     "while:condition:body", "for:target:in:iterable:body", "break", "continue",
     "pass", "import:module", "import:module:as:alias",
     "from:module:import:subcommand"}

RuleKinds ==
    {"AstInterpolation", "AstExpressionBinary", "AstExpressionUnary", "AstValue",
     "AstIdentifier", "AstFormatString", "AstTuple", "AstList", "AstDict",
     "AstAttribute", "AstLookup", "AstCall", "AstAssignment",
     "AstAssignmentTargetIdentifier", "Custom"}

(* A rule other than fallback and root handles the node.                   *)
HasOwnRule(node) ==
    \/ node.kind \in RuleKinds
    \/ node.kind = "AstCommand" /\ node.identifier \in RuleIdentifiers

(* No node of the subtree must change.                                     *)
RECURSIVE Static(_)
Static(node) ==
    /\ ~HasOwnRule(node)
    /\ \A i \in 1..Len(node.fields) :
         \A j \in 1..Len(node.fields[i].nodes) : Static(node.fields[i].nodes[j])

(* C2: when compiling a subtree returns unchanged, which it does for every *)
(* subtree without a node that must change, the accumulator is exactly as  *)
(* it was before the subtree was invoked: lines, reference table, header,  *)
(* variable counter and indentation; at the top level the driver then      *)
(* returns with its accumulator as constructed.                            *)
C2_StructuralSharing ==
    /\ op.name = "invoke" =>
         /\ (~op.raised /\ op.result = None) => acc = op.pre
         /\ Static(op.input.node) => ~op.raised /\ op.result = None
    /\ op.name = "codegen" =>
         ((~op.raised /\ op.result.source = None) =>
            acc = Accumulator /\ op.result.refs = <<>>)

(* A root of two commands, one holding a nested node with a child node,    *)
(* compiled unchanged on an accumulator that already held a reference.     *)
C2_Witness ==
    /\ op.name = "invoke"
    /\ op.input.node = AstRoot(<<Say("hello"), SetBlock(PlainModule)>>)
    /\ ~op.raised
    /\ op.result = None
    /\ op.pre.refs # <<>>

(* The variable name occurs in the line as a whole name.                   *)
Occurs(name, line) ==
    \E p \in 1..Len(line) :
        /\ p + Len(name) - 1 <= Len(line)
        /\ SubSeq(line, p, p + Len(name) - 1) = name
        /\ (p + Len(name) <= Len(line) => ~IsDigits(<<line[p + Len(name)]>>))

(* C3: when invoking the root yields unchanged the driver returns no text  *)
(* and no output variable, with the reference table; otherwise the root    *)
(* result is one fragment, the last line of the returned text assigns that *)
(* fragment to the returned variable, the variable occurs in no earlier    *)
(* line of the text, and the reference table is returned.                  *)
C3_TopLevelDriver ==
    (op.name = "codegen" /\ ~op.raised) =>
        LET inv == Invoke(op.input.node, Accumulator)
        IN IF inv.result = None
           THEN /\ op.result.source = None
                /\ op.result.output = None
                /\ op.result.refs = inv.acc.refs
           ELSE /\ Len(inv.result[1]) = 1
                /\ op.result.source # None
                /\ op.result.output # None
                /\ op.result.refs = inv.acc.refs
                /\ op.result.refs = acc.refs
                /\ LET text == splitlines(op.result.source[1])
                       output == op.result.output[1]
                   IN /\ text[Len(text)] = output \o <<" = ">> \o inv.result[1][1]
                      /\ \A i \in 1..(Len(text) - 1) : ~Occurs(output, text[i])

(* A root with a changed command: the scope variable of the root is in the *)
(* text before the output variable is made.                                *)
C3_Witness ==
    /\ op.name = "codegen"
    /\ ~op.raised
    /\ op.result.output = Some(<<"_mecha_var", "1">>)
    /\ \E i \in 1..Len(acc.lines) : Occurs(<<"_mecha_var", "0">>, acc.lines[i])
    /\ Len(op.result.refs) >= 3

ThreeStatic(node) ==
    /\ node.kind = "AstRoot"
    /\ Len(commands(node)) = 3
    /\ \A i \in 1..3 : Static(commands(node)[i])

(* C4 (as amended): compiling a root of 3 commands none of which           *)
(* references a dynamic value yields no text, no output variable and an    *)
(* empty reference table: nothing is registered, neither the commands one  *)
(* by one nor as a slice.                                                  *)
C4_ScenarioA ==
    (op.name = "codegen" /\ ThreeStatic(op.input.node)) =>
        /\ ~op.raised
        /\ op.result.source = None
        /\ op.result.output = None
        /\ op.result.refs = <<>>
        /\ acc = Accumulator

C4_Witness ==
    /\ op.name = "codegen"
    /\ op.input.node = AstRoot(<<Say("hello"), SetBlock(PlainModule), Say("bye")>>)
    /\ op.result.source = None

(* C4 as stated: no text and a reference table of size 3.                  *)
C4_Original ==
    (op.name = "codegen" /\ ThreeStatic(op.input.node)) =>
        /\ op.result.source = None
        /\ Len(op.result.refs) = 3

IsImport(node) ==
    /\ node.kind = "AstCommand"
    /\ node.identifier \in {"import:module", "import:module:as:alias",
                            "from:module:import:subcommand"}

NativeImport(line, ind) ==
    /\ Len(line) > Len(ind)
    /\ line[Len(ind) + 1] \in {"import ", "from "}

HelperImport(line) ==
    \E i \in 1..Len(line) :
        line[i] \in {"_mecha_runtime.import_module(", "_mecha_runtime.from_module_import("}

(* C7: for every import form, the statement emitted for a non-namespaced   *)
(* module is a native import and the statement emitted for a namespaced    *)
(* module is a call to a runtime import helper and not a native import.    *)
C7_ImportRules ==
    (op.name = "invoke" /\ IsImport(op.input.node)) =>
        LET module == arguments(op.input.node)[1]
            emitted == acc.lines[Len(acc.lines)]
        IN /\ ~op.raised
           /\ Len(acc.lines) = Len(op.pre.lines) + 2
           /\ IF module.namespace = <<>>
              THEN NativeImport(emitted, op.pre.indentation) /\ ~HelperImport(emitted)
              ELSE HelperImport(emitted) /\ ~NativeImport(emitted, op.pre.indentation)

-----------------------------------------------------------------------------
(* C8: the text returned by get_source holds no marker line; its first     *)
(* line is the table assignment; the table's two sequences have equal      *)
(* length, the generated-line positions never decrease, no two consecutive *)
(* original-line numbers are equal, and each marker that changed the       *)
(* current original line number is recorded with the index (0-based, in    *)
(* the final text) of the first non-marker line after it; the non-marker   *)
(* lines keep their relative order.                                        *)

NonMarkers(ls) == SelectSeq(ls, LAMBDA l : ~IsMarker(l))

(* The number of the last marker before physical line i, 1 when none.      *)
PreviousNumber(ls, i) ==
    IF \E j \in 1..(i - 1) : IsMarker(ls[j])
    THEN int(Tail(ls[CHOOSE j \in 1..(i - 1) :
                        IsMarker(ls[j]) /\ \A k \in (j + 1)..(i - 1) : ~IsMarker(ls[k])]))
    ELSE 1

ChangingMarkers(ls) ==
    {i \in 1..Len(ls) : IsMarker(ls[i]) /\ int(Tail(ls[i])) # PreviousNumber(ls, i)}

SourceTableCorrect(a, text) ==
    LET final == SplitOn(text, NL)
        physical == PhysicalLines(a)
        table == TableOf(final[1])
        changing == ChangingMarkers(physical)
    IN /\ \A i \in 1..Len(final) : ~IsMarker(final[i])
       /\ WellFormedTable(final[1])
       /\ Len(table.numbers1) = Len(table.numbers2)
       /\ \A i \in 1..(Len(table.numbers1) - 1) : table.numbers1[i] <= table.numbers1[i + 1]
       /\ \A i \in 1..(Len(table.numbers2) - 1) : table.numbers2[i] # table.numbers2[i + 1]
       /\ Len(table.numbers2) = 1 + Cardinality(changing)
       /\ \A j \in 1..Cardinality(changing) :
            LET m == Nth(changing, j)
                position == table.numbers1[j + 1]
            IN /\ table.numbers2[j + 1] = int(Tail(physical[m]))
               /\ \E k \in (m + 1)..Len(physical) :
                    /\ ~IsMarker(physical[k])
                    /\ \A n \in (m + 1)..(k - 1) : IsMarker(physical[n])
                    /\ position + 1 <= Len(final)
                    /\ final[position + 1] = physical[k]
                    /\ position = 1 + Len(NonMarkers(SubSeq(physical, 1, k - 1)))
       /\ Tail(final) = NonMarkers(physical)

C8_SourcePositionTable ==
    op.name = "get_source" => SourceTableCorrect(op.pre, op.result)

(* get_source has run on a buffer with two markers that change the line    *)
(* number and one that does not.                                           *)
C8_Witness ==
    /\ op.name = "get_source"
    /\ Len(TableOf(SplitOn(op.result, NL)[1]).numbers2) = 3
    /\ Len(NonMarkers(PhysicalLines(op.pre))) + 3 <= Len(PhysicalLines(op.pre))

-----------------------------------------------------------------------------
(* C9: the header holds exactly one binding per distinct helper name that  *)
(* was used, every expression returned for a helper name uses that         *)
(* binding's local name, and get_source renders each binding exactly once. *)

UsedHelpers == {calls[i].name : i \in 1..Len(calls)}

BindingLine(binding) == binding.variable \o <<" = ">> \o binding.expression

C9_HelperDeduplication ==
    /\ Len(acc.header) = Cardinality(UsedHelpers)
    /\ \A name \in UsedHelpers :
         Cardinality({i \in 1..Len(acc.header) :
                        acc.header[i].expression = HelperKey(name)}) = 1
    /\ \A i \in 1..Len(calls) :
         /\ HeaderHas(acc.header, HelperKey(calls[i].name))
         /\ StartsWith(calls[i].expr, HeaderGet(acc.header, HelperKey(calls[i].name)))
    /\ \A i \in 1..Len(acc.header) :
         Count(SplitOn(get_source(acc), NL), BindingLine(acc.header[i])) = 1

(* One helper used twice, with different arguments: one binding, two call  *)
(* sites.                                                                  *)
C9_Witness ==
    /\ Len(acc.header) = 1
    /\ \E i, j \in 1..Len(calls) :
         i < j /\ calls[i].name = calls[j].name /\ calls[i].expr # calls[j].expr

-----------------------------------------------------------------------------
(* C10: the reference table holds exactly the registered objects in        *)
(* registration order, and every expression make_ref or make_ref_slice     *)
(* has returned still designates the objects it was returned for.          *)

C10_ReferenceTable ==
    /\ acc.refs = Concat([i \in 1..Len(issued) |-> issued[i].objs])
    /\ \A i \in 1..Len(issued) : Deref(issued[i].expr, acc.refs) = issued[i].objs

(* An index and a slice were returned and more was registered afterwards.  *)
C10_Witness ==
    /\ Len(issued) = 3
    /\ Len(issued[1].objs) = 1
    /\ Len(issued[2].objs) = 2
    /\ issued[2].objs[1] # issued[2].objs[2]

-----------------------------------------------------------------------------
(* What the property of the dispatch engine reads.                         *)

(* The nodes of a tree in left-to-right pre-order.                         *)
RECURSIVE PreOrder(_)
PreOrder(node) ==
    <<node>> \o Concat([i \in 1..Len(ChildNodes(node)) |-> PreOrder(ChildNodes(node)[i])])

(* The handler C11 names for a node.                                       *)
ExpectedHandler(node) ==
    IF node.kind = "AstNumber"
    THEN (IF node.value = <<"7">> THEN "seven" ELSE "numbers")
    ELSE "default"

ExpectedCalls(ast) ==
    LET nodes == PreOrder(ast)
    IN [i \in 1..Len(nodes) |-> [handler |-> ExpectedHandler(nodes[i]), node |-> nodes[i]]]

(* The nodes a handler was called on, in call order.                       *)
CalledOn(handler) ==
    LET own == SelectSeq(handled, LAMBDA c : c.handler = handler)
    IN [i \in 1..Len(own) |-> own[i].node]

(* C11: in a visitor composed of an unconstrained rule on numbers, a rule  *)
(* on numbers of value 7 and a default rule that walks all fields, in any  *)
(* order of registration, the handlers called so far are, node by node in  *)
(* left-to-right pre-order of the tree, exactly one per node: "seven" for  *)
(* a number of value 7, "numbers" for any other number, "default" for      *)
(* every other node; once the traversal is over every node has been        *)
(* handled.                                                                *)
C11_RuleSpecificity ==
    tree # None =>
        LET expected == ExpectedCalls(tree[1])
        IN /\ Len(handled) <= Len(expected)
           /\ handled = SubSeq(expected, 1, Len(handled))
           /\ stack = <<>> => handled = expected

(* test_visitor_extend: "particle dust 1.0 0.5 7 1.0 7 7 7" traversed to   *)
(* the end, with the lists the test asserts.                               *)
C11_Witness ==
    /\ rules = <<NumbersRule, DefaultRule, SevenRule>>
    /\ tree = Some(ParticleDust("1", "0.5", "7", "1"))
    /\ stack = <<>>
    /\ [i \in 1..Len(CalledOn("default")) |-> CalledOn("default")[i].kind]
         = <<"AstCommand", "AstParticle", "AstResourceLocation",
             "AstDustParticleParameters", "AstVector3",
             "AstCoordinate", "AstCoordinate", "AstCoordinate">>
    /\ CalledOn("numbers") = <<AstNumber("1"), AstNumber("0.5"), AstNumber("1")>>
    /\ CalledOn("seven") = <<AstNumber("7")>>

-----------------------------------------------------------------------------
(* n levels of indentation.                                                *)
Levels(n) == [i \in 1..n |-> "    "]

(* An if statement whose body is one pass statement, and one whose body    *)
(* raises an arity error after the block was entered: the error is raised  *)
(* by the rule of a command of the body.  A function whose default has no  *)
(* result: the error is raised by the function rule itself, inside its two *)
(* nested blocks; and one whose default raises in a rule of its own.       *)
IfPass == If(AstValue("v"), <<Pass>>)
IfRaising == If(AstValue("v"), <<Pass, If(AstMessage("hello"), <<Pass>>)>>)
DefRaising == Def(AstMessage("hello"), <<Pass>>)
DefDefaultRaising == Def(AstInterpolation("json", AstMessage("hello"), 0), <<Pass>>)

(* C12: inside a block() scope the indentation is exactly one level (four  *)
(* spaces) deeper than when the scope was entered; when the scope is left, *)
(* normally or by an error raised inside it, the indentation is what it    *)
(* was on entry, and nested scopes restore last-entered first: with n      *)
(* scopes open the indentation is n levels, the value saved by the i-th    *)
(* open scope is i - 1 levels.  The same holds of the blocks of the rules  *)
(* compiled on the accumulator: an error raised in the rule that holds the *)
(* blocks leaves them at once; while an error of a child is with the       *)
(* engine and the rule is suspended, its blocks are still open, one level  *)
(* deeper each, and they are left, innermost first, when the error is      *)
(* thrown into the rule.  The two nested blocks of a function definition   *)
(* are compiled at every depth, as a scope is entered or left.             *)
C12_ScopedIndentation ==
    /\ acc.indentation = Levels(Len(blocks))
    /\ \A i \in 1..Len(blocks) : blocks[i] = Levels(i - 1)
    /\ op.name = "block_enter" =>
         /\ acc.indentation = op.pre.indentation \o <<"    ">>
         /\ blocks[Len(blocks)] = op.pre.indentation
    /\ op.name \in {"block_exit", "block_raise"} =>
         /\ op.pre.indentation = acc.indentation \o <<"    ">>
         /\ acc.lines = op.pre.lines
    /\ LET done == Invoke(IfPass, acc)
           failed == Invoke(IfRaising, acc)
       IN /\ ~done.raised
          /\ done.acc.indentation = acc.indentation
          /\ done.acc.lines = acc.lines \o
                << acc.indentation \o <<"if ", "'", "v", "'", ":", NL>>,
                   acc.indentation \o <<"    ", "pass", NL>> >>
          /\ failed.raised
          /\ failed.suspended = <<acc.indentation>>
          /\ failed.acc.indentation = acc.indentation \o <<"    ">>
          /\ Thrown(failed).acc.indentation = acc.indentation
          /\ Thrown(failed).acc.lines = failed.acc.lines
          /\ Len(failed.acc.lines) = Len(acc.lines) + 2
    /\ op.name \in {"init", "block_enter", "block_exit", "block_raise"} =>
       LET own == Invoke(DefRaising, acc)
           child == Invoke(DefDefaultRaising, acc)
       IN /\ own.raised
          /\ own.suspended = <<>>
          /\ own.acc.indentation = acc.indentation
          /\ child.raised
          /\ child.suspended = <<acc.indentation \o <<"    ">>, acc.indentation>>
          /\ child.acc.indentation = acc.indentation \o <<"    ", "    ">>
          /\ Thrown(child).acc.indentation = acc.indentation
          /\ own.acc.lines = child.acc.lines

(* The inner of two nested scopes has been left by an error; the outer is  *)
(* still open.                                                             *)
C12_Witness ==
    /\ op.name = "block_raise"
    /\ Len(blocks) = 1
    /\ op.pre.indentation = Levels(2)
    /\ acc.indentation = Levels(1)

-----------------------------------------------------------------------------
RootVisit ==
    /\ op.name = "visit_multiple"
    /\ op.input.kind = "RootCommandCollector"
    /\ ~op.raised
    /\ op.result # None

(* The entries the children and the collector emitted since the field      *)
(* began, in the order of C1.                                              *)
EmittedSince ==
    LET laid == Layout(op.input.children, 1, op.pre, 1, FALSE).lines
    IN SubSeq(laid, Len(op.pre.lines) + 1, Len(laid))

(* The variable a scope header line binds, at indentation ind.             *)
BoundVariable(line, ind) == SubSeq(line, Len(ind) + 2, Len(line) - 2)

IsScopeHeader(line, ind) ==
    /\ Len(line) >= Len(ind) + 5
    /\ SubSeq(line, 1, Len(ind) + 1) = ind \o <<"with _mecha_runtime.scope() as ">>
    /\ SubSeq(line, Len(line) - 1, Len(line)) = <<":", NL>>
    /\ BoundVariable(line, ind)[1] = "_mecha_var"
    /\ IsDigits(Tail(BoundVariable(line, ind)))

(* C13: after RootCommandCollector.flush the buffer is: the entries before *)
(* the position at which the field began, unchanged; at that position one  *)
(* scope header line, at the current indentation, binding a variable that  *)
(* was not handed out before and occurs in no other entry; then every      *)
(* entry emitted since that position, each with exactly one more level of  *)
(* indentation in front, in the order emitted.  The returned expression    *)
(* refers to the variable.                                                 *)
C13_RootFlush ==
    RootVisit =>
        LET start == Len(op.pre.lines)
            header == acc.lines[start + 1]
            variable == BoundVariable(header, op.pre.indentation)
            emitted == EmittedSince
        IN /\ Len(acc.lines) = start + 1 + Len(emitted)
           /\ SubSeq(acc.lines, 1, start) = op.pre.lines
           /\ IsScopeHeader(header, op.pre.indentation)
           /\ acc.indentation = op.pre.indentation
           /\ \A i \in 1..Len(emitted) :
                acc.lines[start + 1 + i] = <<"    ">> \o emitted[i]
           /\ int(Tail(variable)) >= op.pre.counter
           /\ int(Tail(variable)) < acc.counter
           /\ \A i \in 1..Len(acc.lines) :
                i # start + 1 => ~Occurs(variable, acc.lines[i])
           /\ Occurs(variable, op.result[1])

(* A root field of three commands, one of them emitting two statements,    *)
(* flushed on a buffer that already held a line.                           *)
C13_Witness ==
    /\ RootVisit
    /\ op.input.children = <<Say("hello"), TwoFragments, Say("bye")>>
    /\ op.pre.lines # <<>>
    /\ Len(acc.lines) = Len(op.pre.lines) + 7

====
